---- MODULE Spec2Model ----
(***************************************************************************)
(* Model of src/swapi.js: a Star Wars API client with a process-wide       *)
(* cache, a sequential orchestrator (fetchStarWarsData) and an HTTP front  *)
(* door.  The file holds two versions of the program: the task-list        *)
(* version (lines 1-304) and the inline version (lines 306-576).  The      *)
(* variable `version` selects which of the two programs is running.        *)
(*                                                                         *)
(* Execution follows the Node.js event loop: one callback (a macrotask)    *)
(* runs at a time, and the continuation of an `await` (a microtask) runs   *)
(* before any further macrotask.                                           *)
(***************************************************************************)
EXTENDS Integers, Sequences, FiniteSets, TLC

VARIABLES version, cache, errorCount, fetchCount, totalDataSize,
          lastCharacterId, runs, requests, outbound, crashed, lastResponse,
          printed, limits

vars == <<version, cache, errorCount, fetchCount, totalDataSize,
          lastCharacterId, runs, requests, outbound, crashed, lastResponse,
          printed, limits>>

(* ------------------------------ bounds --------------------------------- *)

\* number of /api requests the front door receives
MaxRuns == 2
\* number of outbound requests the process makes
MaxRequests == 5
\* /api requests and outbound requests of the runs made one after another
SeqRuns == 5
SeqRequests == 12
\* runs in flight at a time when every response is a success
RaceInFlight == 2
\* length of the films lists
MaxFilms == 3

(* --------------------------- program constants ------------------------- *)

OK == 200
BAD_REQUEST == 400
NOT_FOUND == 404
\* a ceiling that is one too low
maxlastCharacterIdLow == 4 - 1
maxlastCharacterId == 4

Versions == {"tasks", "inline"}

(* ------------------------------ JSON values ---------------------------- *)

\* an entry of a results list (for films/: a film): title and release year
Film(title, year) == [title |-> title, release_date |-> year]
FilmA == Film("A", 1980)
FilmB == Film("B", 1977)
FilmC == Film("C", 1983)
FilmD == Film("D", 1980)
Films == {FilmA, FilmB, FilmC, FilmD}

\* the results lists of up to MaxFilms films, in every order
FilmLists == UNION {[1..n -> Films] : n \in 0..MaxFilms}

Undefined == [t |-> "undefined", results |-> <<>>]
Zero == [t |-> "number", results |-> <<>>]
Obj(results) == [t |-> "object", results |-> results]

\* response bodies the remote side can send
BodyHtml == "<html>"
BodyZero == "0"
BodyList == "{results:[A1980,B1977]}"
Bodies == {BodyHtml, BodyZero, BodyList}

\* the text of a results list
RECURSIVE RenderFilms(_)
RenderFilms(films) ==
    IF films = <<>> THEN ""
    ELSE LET film == films[1]
             text == film.title \o ToString(film.release_date)
         IN  IF Len(films) = 1 THEN text
             ELSE text \o "," \o RenderFilms(Tail(films))

Render(films) == "{results:[" \o RenderFilms(films) \o "]}"

\* the bodies a films/ response can carry
FilmBodies == {Render(films) : films \in FilmLists}

\* JSON.parse: well-formed bodies only
WellFormed(body) == body # BodyHtml
JSONParse(body) ==
    CASE body = BodyZero -> Zero
      [] body = BodyList -> Obj(<<FilmA, FilmB>>)
      [] OTHER -> Obj(CHOOSE films \in FilmLists : Render(films) = body)

\* JSON.stringify(v).length
\*   0                          ->  1
\*   {"results":[]}             -> 14
\*   one film {"title":"A","release_date":"1977-05-25","characters":[],"planets":[]} -> 70
JSONStringifyLength(v) ==
    IF v.t = "number" THEN 1
    ELSE 14 + 70 * Len(v.results)
            + (IF Len(v.results) > 1 THEN Len(v.results) - 1 ELSE 0)

\* JavaScript truthiness of a value: undefined and 0 are falsy, objects truthy
Truthy(v) == v.t = "object"

(* ------------------------------- the cache ----------------------------- *)

\* cache[endpoint] of a plain object: undefined for a missing key
Lookup(c, endpoint) == IF endpoint \in DOMAIN c THEN c[endpoint] ELSE Undefined

\* a cache that is emptied when it already holds two entries
PutEvicting(c, endpoint, value) ==
    IF Cardinality(DOMAIN c \ {endpoint}) >= 2
    THEN [k \in {endpoint} |-> value]
    ELSE [k \in DOMAIN c \cup {endpoint} |-> IF k = endpoint THEN value ELSE c[k]]

\* cache[endpoint] = value
Put(c, endpoint, value) ==
    [k \in DOMAIN c \cup {endpoint} |-> IF k = endpoint THEN value ELSE c[k]]

\* a presence test in place of the truthiness test
IsCachedByKey(c, endpoint) == endpoint \in DOMAIN c

\* if (cache[endpoint])
IsCached(c, endpoint) == Truthy(Lookup(c, endpoint))

\* Object.keys(cache).length
CacheSize(c) == Cardinality(DOMAIN c)

(* ------------------------------ endpoints ------------------------------ *)

IdStr(id) == ToString(id)

\* a task list built anew in every run, with people/${lastCharacterId}
EndpointPerRun(ver, k, id) ==
    CASE k = 1 -> "people/" \o IdStr(id)
      [] k = 2 -> "starships/?page=1"
      [] k = 3 -> "planets/?page=1"
      [] k = 4 -> "films/"
      [] k = 5 -> "vehicles/" \o IdStr(id)

\* the endpoint of step k of a run (steps 1..4 are the tasks, 5 the vehicle)
\* the task-list version builds people/${lastCharacterId} once, at start-up,
\* when lastCharacterId is 1; the inline version builds it in every run
Endpoint(ver, k, id) ==
    CASE k = 1 -> IF ver = "tasks" THEN "people/1" ELSE "people/" \o IdStr(id)
      [] k = 2 -> "starships/?page=1"
      [] k = 3 -> "planets/?page=1"
      [] k = 4 -> "films/"
      [] k = 5 -> "vehicles/" \o IdStr(id)

NumTasks == 4
VehicleStep == NumTasks + 1

(* --------------------------- display handlers -------------------------- *)

\* the comparator taken the other way round, (a, b) => b - a
InsertDescending(film, sorted) ==
    LET n == Cardinality({i \in 1..Len(sorted) :
                            sorted[i].release_date >= film.release_date})
    IN  SubSeq(sorted, 1, n) \o <<film>> \o SubSeq(sorted, n + 1, Len(sorted))

\* Array.prototype.sort with (a, b) => new Date(a.release_date) - new Date(b.release_date):
\* a stable ascending sort; Insert puts a film after the films that are not later
Insert(film, sorted) ==
    LET n == Cardinality({i \in 1..Len(sorted) :
                            sorted[i].release_date <= film.release_date})
    IN  SubSeq(sorted, 1, n) \o <<film>> \o SubSeq(sorted, n + 1, Len(sorted))

RECURSIVE SortFilms(_)
SortFilms(films) ==
    IF films = <<>> THEN <<>>
    ELSE Insert(films[Len(films)], SortFilms(SubSeq(films, 1, Len(films) - 1)))

\* does the handler of step k throw a TypeError on this payload?
\*   displayCharacterDetails, displayVehicle: read properties of the payload
\*     (undefined on the number 0, no throw)
\*   displayStarships, displayLargePlanets, displayFilmsChronologically: call a
\*     method of payload.results, which throws when results is undefined
HandlerThrows(k, data) ==
    IF k \in {2, 3, 4} THEN data.t # "object" ELSE FALSE

\* the payload after the handler of step k has run: displayFilmsChronologically
\* sorts films.results in place, the other handlers only read
AfterHandler(k, data) ==
    IF k = 4 THEN [data EXCEPT !.results = SortFilms(@)] ELSE data

(* ------------------------- promises, runs, requests -------------------- *)

Pending == [kind |-> "pending", value |-> Undefined, error |-> "none"]
Resolved(v) == [kind |-> "ok", value |-> v, error |-> "none"]
Rejected(e) == [kind |-> "err", value |-> Undefined, error |-> e]

Ev(name, k) == [ev |-> name, step |-> k]

\* an outbound request made by https.get, with the promise that wraps it
NewRequest(r, k, endpoint) ==
    [run |-> r, step |-> k, endpoint |-> endpoint, state |-> "sent",
     status |-> 0, promise |-> "pending", error |-> "none"]

\* the requests are kept while their socket is open
Open(reqs, q, request) ==
    [x \in DOMAIN reqs \cup {q} |-> IF x = q THEN request ELSE reqs[x]]
Close(reqs, q) == [x \in DOMAIN reqs \ {q} |-> reqs[x]]

\* an invocation of fetchStarWarsData before its first fetch
NewRun == [pc |-> "start", step |-> 0, endpoint |-> "", result |-> Pending,
           alias |-> FALSE, trace |-> <<>>]

\* outbound[endpoint]: the https.get calls made for the endpoint so far
Count(out, endpoint) ==
    [e \in DOMAIN out \cup {endpoint} |->
        IF e = endpoint THEN (IF e \in DOMAIN out THEN out[e] ELSE 0) + 1
        ELSE out[e]]

RECURSIVE Sum(_)
Sum(f) == IF DOMAIN f = {} THEN 0
          ELSE LET e == CHOOSE x \in DOMAIN f : TRUE
               IN  f[e] + Sum([x \in DOMAIN f \ {e} |-> f[x]])

\* the runs that have not left the try block
InFlight == Cardinality({r \in DOMAIN runs : runs[r].pc \in {"await", "ready"}})

\* no await continuation is queued: the event loop may take the next callback
NoMicrotask == \A r \in DOMAIN runs : runs[r].pc # "ready"

\* fetchFromApi up to its return: a cache hit returns cache[endpoint] (the
\* cached object itself), a miss issues the outbound request
FetchFromApi(c, reqs, out, run, r, k, endpoint) ==
    IF IsCached(c, endpoint)
    THEN [run |-> [run EXCEPT !.pc = "ready", !.step = k, !.endpoint = endpoint,
                              !.result = Resolved(Lookup(c, endpoint)),
                              !.alias = TRUE,
                              !.trace = Append(@, Ev("fetch", k))],
          requests |-> reqs, outbound |-> out]
    ELSE [run |-> [run EXCEPT !.pc = "await", !.step = k, !.endpoint = endpoint,
                              !.result = Pending, !.alias = FALSE,
                              !.trace = Append(@, Ev("fetch", k))],
          requests |-> Open(reqs, <<r, k>>, NewRequest(r, k, endpoint)),
          outbound |-> Count(out, endpoint)]

\* the error counted once where it is raised and once where it is caught
handleErrorTwice(count) == count + 2

\* handleError: errorCount++
handleError(count) == count + 1

\* resolve / reject of a request's promise: only the first settlement counts
SettledRuns(q, result, aliased) ==
    IF requests[q].promise = "pending"
    THEN [runs EXCEPT ![requests[q].run].pc = "ready",
                      ![requests[q].run].result = result,
                      ![requests[q].run].alias = aliased]
    ELSE runs

SettledRequest(q, state, result) ==
    IF requests[q].promise = "pending"
    THEN [requests[q] EXCEPT !.state = state,
                             !.promise = IF result.kind = "ok" THEN "resolved" ELSE "rejected",
                             !.error = result.error]
    ELSE [requests[q] EXCEPT !.state = state]

(* ------------------------------ initial state -------------------------- *)

\* lastResponse is the HTTP response written by the step just taken
NoResponse == [url |-> "", status |-> 0, type |-> "", body |-> ""]

\* printed is the last list displayFilmsChronologically was given and the
\* order in which it printed the films
NothingPrinted == [input |-> <<>>, output |-> <<>>]

\* limits caps the exploration: /api requests, outbound requests, runs in flight
Init ==
    /\ version \in Versions
    /\ cache = [k \in {} |-> Undefined]
    /\ errorCount = 0
    /\ fetchCount = 0
    /\ totalDataSize = 0
    /\ lastCharacterId = 1
    /\ runs = <<>>
    /\ requests = [q \in {} |-> NewRequest(0, 0, "")]
    /\ outbound = [e \in {} |-> 0]
    /\ crashed = FALSE
    /\ lastResponse = NoResponse
    /\ printed = NothingPrinted
    /\ limits = [runs |-> MaxRuns, requests |-> MaxRequests,
                 inflight |-> MaxRuns]

(* ------------------------------ HTTP front door ------------------------ *)

Urls == {"/", "/index.html", "/api", "/stats", "/favicon.ico"}

\* renderHomePage: the page, of which the footer line depends on the state
renderHomePage ==
    [url |-> "/", status |-> OK, type |-> "text/html",
     body |-> "<p>API calls: " \o ToString(fetchCount)
              \o " | Cache entries: " \o ToString(CacheSize(cache))
              \o " | Errors: " \o ToString(errorCount) \o "</p>"]

\* a statistics object whose data_size and errors are taken from each other
statsSwapped ==
    "{api_calls:" \o ToString(fetchCount)
    \o ",cache_size:" \o ToString(CacheSize(cache))
    \o ",data_size:" \o ToString(errorCount)
    \o ",errors:" \o ToString(totalDataSize) \o "}"

\* statsStringfied (the inline version builds the same object in the route):
\* JSON.stringify of the statistics object, written without the quotes
statsStringfied ==
    "{api_calls:" \o ToString(fetchCount)
    \o ",cache_size:" \o ToString(CacheSize(cache))
    \o ",data_size:" \o ToString(totalDataSize)
    \o ",errors:" \o ToString(errorCount) \o "}"

\* the acknowledgement of the /api route
ApiResponse == [url |-> "/api", status |-> OK, type |-> "text/plain",
                body |-> "Check server console for results"]

\* a home route that matches every path the other two routes do not
HomeRouteAnyPath(url) ==
    /\ url \notin {"/api", "/stats"}
    /\ lastResponse' = [renderHomePage EXCEPT !.url = url]
    /\ UNCHANGED <<version, limits, printed, cache, errorCount, fetchCount, totalDataSize,
                   lastCharacterId, runs, requests, outbound, crashed>>

\* GET / and GET /index.html
HomeRoute(url) ==
    /\ url \in {"/", "/index.html"}
    /\ lastResponse' = [renderHomePage EXCEPT !.url = url]
    /\ UNCHANGED <<version, limits, printed, cache, errorCount, fetchCount, totalDataSize,
                   lastCharacterId, runs, requests, outbound, crashed>>

\* a route that awaits fetchStarWarsData() and answers in a later step
ApiRouteAwaits(url) ==
    /\ url = "/api"
    /\ Len(runs) < limits.runs
    /\ InFlight < limits.inflight
    /\ LET r == Len(runs) + 1
           f == FetchFromApi(cache, requests, outbound, NewRun, r, 1,
                             Endpoint(version, 1, lastCharacterId))
       IN  /\ Sum(f.outbound) <= limits.requests
           /\ fetchCount' = fetchCount + 1
           /\ runs' = Append(runs, f.run)
           /\ requests' = f.requests
           /\ outbound' = f.outbound
    /\ lastResponse' = NoResponse
    /\ UNCHANGED <<version, limits, printed, cache, errorCount, totalDataSize, lastCharacterId,
                   crashed>>

\* GET /api: fetchStarWarsData() runs up to its first await (fetchCount++ and
\* the synchronous part of the first fetchFromApi), then the route answers
ApiRoute(url) ==
    /\ url = "/api"
    /\ Len(runs) < limits.runs
    /\ InFlight < limits.inflight
    /\ LET r == Len(runs) + 1
           f == FetchFromApi(cache, requests, outbound, NewRun, r, 1,
                             Endpoint(version, 1, lastCharacterId))
       IN  /\ Sum(f.outbound) <= limits.requests
           /\ fetchCount' = fetchCount + 1
           /\ runs' = Append(runs, f.run)
           /\ requests' = f.requests
           /\ outbound' = f.outbound
    /\ lastResponse' = ApiResponse
    /\ UNCHANGED <<version, limits, printed, cache, errorCount, totalDataSize, lastCharacterId,
                   crashed>>

\* GET /stats
StatsRoute(url) ==
    /\ url = "/stats"
    /\ lastResponse' = [url |-> url, status |-> OK, type |-> "application/json",
                        body |-> statsStringfied]
    /\ UNCHANGED <<version, limits, printed, cache, errorCount, fetchCount, totalDataSize,
                   lastCharacterId, runs, requests, outbound, crashed>>

\* any other path
NotFoundRoute(url) ==
    /\ url \notin {"/", "/index.html", "/api", "/stats"}
    /\ lastResponse' = [url |-> url, status |-> NOT_FOUND, type |-> "text/plain",
                        body |-> "Not Found"]
    /\ UNCHANGED <<version, limits, printed, cache, errorCount, fetchCount, totalDataSize,
                   lastCharacterId, runs, requests, outbound, crashed>>

\* the request listener of http.createServer
HttpRequest(url) ==
    /\ ~crashed
    /\ NoMicrotask
    /\ \/ HomeRoute(url)
       \/ ApiRoute(url)
       \/ StatsRoute(url)
       \/ NotFoundRoute(url)

(* --------------------- fetchStarWarsData after an await ---------------- *)

\* the locals of a run that has left the try block
Ended(run, pc) ==
    [run EXCEPT !.pc = pc, !.endpoint = "", !.result = Pending, !.alias = FALSE]

\* an error count written back from a value read before the await: the
\* increment is lost when another run is in flight
CatchLostUpdate(r, run, size, c) ==
    /\ errorCount' = IF InFlight > 1 THEN errorCount ELSE handleError(errorCount)
    /\ runs' = [runs EXCEPT ![r] = Ended(run, "failed")]
    /\ totalDataSize' = size
    /\ cache' = c
    /\ UNCHANGED <<version, limits, fetchCount, lastCharacterId, requests, outbound,
                   crashed>>

\* a catch block that takes back the run's increment of fetchCount
CatchRollback(r, run, size, c) ==
    /\ errorCount' = handleError(errorCount)
    /\ runs' = [runs EXCEPT ![r] = Ended(run, "failed")]
    /\ totalDataSize' = size
    /\ cache' = c
    /\ fetchCount' = fetchCount - 1
    /\ UNCHANGED <<version, limits, lastCharacterId, requests, outbound, crashed>>

\* catch (err) { handleError(err.message) }: the run ends
Catch(r, run, size, c) ==
    /\ errorCount' = handleError(errorCount)
    /\ runs' = [runs EXCEPT ![r] = Ended(run, "failed")]
    /\ totalDataSize' = size
    /\ cache' = c
    /\ UNCHANGED <<version, limits, fetchCount, lastCharacterId, requests, outbound,
                   crashed>>

\* a vehicle fetch that advances the id as it reads it, vehicles/${lastCharacterId++}
NextFetchAdvancesId(r, run, size, c, k) ==
    LET f == FetchFromApi(c, requests, outbound, run, r, k,
                          Endpoint(version, k, lastCharacterId))
    IN  /\ Sum(f.outbound) <= limits.requests
        /\ runs' = [runs EXCEPT ![r] = f.run]
        /\ requests' = f.requests
        /\ outbound' = f.outbound
        /\ totalDataSize' = size
        /\ cache' = c
        /\ lastCharacterId' = IF k = VehicleStep THEN lastCharacterId + 1
                              ELSE lastCharacterId
        /\ UNCHANGED <<version, limits, errorCount, fetchCount, crashed>>

\* a loop that starts the fetch after the next one
NextFetchSkipsAhead(r, run, size, c, k) ==
    LET j == IF k < NumTasks THEN k + 1 ELSE k
        f == FetchFromApi(c, requests, outbound, run, r, j,
                          Endpoint(version, j, lastCharacterId))
    IN  /\ Sum(f.outbound) <= limits.requests
        /\ runs' = [runs EXCEPT ![r] = f.run]
        /\ requests' = f.requests
        /\ outbound' = f.outbound
        /\ totalDataSize' = size
        /\ cache' = c
        /\ UNCHANGED <<version, limits, errorCount, fetchCount, lastCharacterId,
                       crashed>>

\* the run goes on with the fetch of step k
NextFetch(r, run, size, c, k) ==
    LET f == FetchFromApi(c, requests, outbound, run, r, k,
                          Endpoint(version, k, lastCharacterId))
    IN  /\ Sum(f.outbound) <= limits.requests
        /\ runs' = [runs EXCEPT ![r] = f.run]
        /\ requests' = f.requests
        /\ outbound' = f.outbound
        /\ totalDataSize' = size
        /\ cache' = c
        /\ UNCHANGED <<version, limits, errorCount, fetchCount, lastCharacterId,
                       crashed>>

\* the run reaches the end of the try block
Finish(r, run, size, c, id) ==
    /\ runs' = [runs EXCEPT ![r] = Ended(run, "done")]
    /\ totalDataSize' = size
    /\ cache' = c
    /\ lastCharacterId' = id
    /\ UNCHANGED <<version, limits, errorCount, fetchCount, requests, outbound,
                   crashed>>

\* console output of displayFilmsChronologically: sortedFilms.forEach prints
\* the films in the order the sort left them
Printed(run) ==
    IF /\ run.step = NumTasks
       /\ run.result.kind = "ok"
       /\ ~HandlerThrows(run.step, run.result.value)
    THEN [input |-> run.result.value.results,
          output |-> AfterHandler(run.step, run.result.value).results]
    ELSE printed

\* a continuation that adds the size of a payload only when it was downloaded
ResumeSkipsCachedSize(r) ==
    /\ ~crashed
    /\ r \in DOMAIN runs
    /\ runs[r].pc = "ready"
    /\ lastResponse' = NoResponse
    /\ printed' = Printed(runs[r])
    /\ LET run == runs[r]
           k == run.step
           data == run.result.value
           size == IF run.alias THEN totalDataSize
                   ELSE totalDataSize + JSONStringifyLength(data)
           sized == [run EXCEPT !.trace = Append(@, Ev("size", k))]
           handled == [sized EXCEPT !.trace = Append(@, Ev("handler", k))]
           \* an in-place change of the payload shows in the cache when the
           \* payload is the cached object
           c == IF run.alias
                THEN Put(cache, run.endpoint, AfterHandler(k, data))
                ELSE cache
       IN  IF run.result.kind = "err"
           THEN Catch(r, run, totalDataSize, cache)
           ELSE IF HandlerThrows(k, data)
           THEN Catch(r, handled, size, cache)
           ELSE IF k < NumTasks
           THEN NextFetch(r, handled, size, c, k + 1)
           ELSE IF k = NumTasks
           THEN IF lastCharacterId <= maxlastCharacterId
                THEN NextFetch(r, handled, size, c, VehicleStep)
                ELSE Finish(r, handled, size, c, lastCharacterId)
           ELSE Finish(r, handled, size, c, lastCharacterId + 1)

\* the continuation of `await fetchFromApi(...)` of run r: on a rejection the
\* catch block; on a value the size is added, the handler is called and the
\* run goes on to its next fetch
Resume(r) ==
    /\ ~crashed
    /\ r \in DOMAIN runs
    /\ runs[r].pc = "ready"
    /\ lastResponse' = NoResponse
    /\ printed' = Printed(runs[r])
    /\ LET run == runs[r]
           k == run.step
           data == run.result.value
           size == totalDataSize + JSONStringifyLength(data)
           sized == [run EXCEPT !.trace = Append(@, Ev("size", k))]
           handled == [sized EXCEPT !.trace = Append(@, Ev("handler", k))]
           \* an in-place change of the payload shows in the cache when the
           \* payload is the cached object
           c == IF run.alias
                THEN Put(cache, run.endpoint, AfterHandler(k, data))
                ELSE cache
       IN  IF run.result.kind = "err"
           THEN Catch(r, run, totalDataSize, cache)
           ELSE IF HandlerThrows(k, data)
           THEN Catch(r, handled, size, cache)
           ELSE IF k < NumTasks
           THEN NextFetch(r, handled, size, c, k + 1)
           ELSE IF k = NumTasks
           THEN IF lastCharacterId <= maxlastCharacterId
                THEN NextFetch(r, handled, size, c, VehicleStep)
                ELSE Finish(r, handled, size, c, lastCharacterId)
           ELSE Finish(r, handled, size, c, lastCharacterId + 1)

(* ------------------------ callbacks of a request ----------------------- *)

Statuses == {399, 400}

\* a strict comparison: status 400 itself passes
StatusFailsAbove(status) == status > BAD_REQUEST

\* response.statusCode >= HTTP_STATUS.BAD_REQUEST
StatusFails(status) == status >= BAD_REQUEST

\* the response callback of https.get: a failing status rejects and leaves the
\* response unread; otherwise the data and end listeners are attached
OnResponse(q, status) ==
    /\ ~crashed
    /\ NoMicrotask
    /\ q \in DOMAIN requests
    /\ requests[q].state = "sent"
    /\ IF StatusFails(status)
       THEN /\ runs' = SettledRuns(q, Rejected("status"), FALSE)
            /\ requests' = [requests EXCEPT
                 ![q] = [SettledRequest(q, "stalled", Rejected("status"))
                           EXCEPT !.status = status]]
       ELSE /\ runs' = runs
            /\ requests' = [requests EXCEPT ![q].state = "receiving",
                                            ![q].status = status]
    /\ lastResponse' = NoResponse
    /\ UNCHANGED <<version, limits, printed, cache, errorCount, fetchCount, totalDataSize,
                   lastCharacterId, outbound, crashed>>

\* the "end" listener, task-list version: JSON.parse is called outside any try
\* block, so a malformed body is an uncaught exception of the listener
OnEndTasks(q, body) ==
    IF WellFormed(body)
    THEN /\ cache' = Put(cache, requests[q].endpoint, JSONParse(body))
         /\ runs' = SettledRuns(q, Resolved(JSONParse(body)), FALSE)
         /\ requests' = Close(requests, q)
         /\ crashed' = crashed
    ELSE /\ crashed' = TRUE
         /\ requests' = Close(requests, q)
         /\ UNCHANGED <<cache, runs>>

\* the "end" listener, inline version: the parse is inside try/catch and the
\* parsed object is both cached and resolved
OnEndInline(q, body) ==
    IF WellFormed(body)
    THEN /\ cache' = Put(cache, requests[q].endpoint, JSONParse(body))
         /\ runs' = SettledRuns(q, Resolved(JSONParse(body)), TRUE)
         /\ requests' = Close(requests, q)
         /\ crashed' = crashed
    ELSE /\ runs' = SettledRuns(q, Rejected("parse"), FALSE)
         /\ requests' = Close(requests, q)
         /\ UNCHANGED <<cache, crashed>>

OnEnd(q, body) ==
    /\ ~crashed
    /\ NoMicrotask
    /\ q \in DOMAIN requests
    /\ requests[q].state = "receiving"
    /\ IF version = "tasks" THEN OnEndTasks(q, body) ELSE OnEndInline(q, body)
    /\ lastResponse' = NoResponse
    /\ UNCHANGED <<version, limits, printed, errorCount, fetchCount, totalDataSize,
                   lastCharacterId, outbound>>

\* a timeout callback that rejects without request.abort()
OnTimeoutNoAbort(q) ==
    /\ ~crashed
    /\ NoMicrotask
    /\ q \in DOMAIN requests
    /\ requests[q].state \in {"sent", "receiving", "stalled"}
    /\ runs' = SettledRuns(q, Rejected("timeout"), FALSE)
    /\ requests' = [requests EXCEPT
         ![q] = SettledRequest(q, requests[q].state, Rejected("timeout"))]
    /\ lastResponse' = NoResponse
    /\ UNCHANGED <<version, limits, printed, cache, errorCount, fetchCount, totalDataSize,
                   lastCharacterId, outbound, crashed>>

\* the callback of request.setTimeout: request.abort() and reject
OnTimeout(q) ==
    /\ ~crashed
    /\ NoMicrotask
    /\ q \in DOMAIN requests
    /\ requests[q].state \in {"sent", "receiving", "stalled"}
    /\ runs' = SettledRuns(q, Rejected("timeout"), FALSE)
    /\ requests' = [requests EXCEPT
         ![q] = SettledRequest(q, "aborted", Rejected("timeout"))]
    /\ lastResponse' = NoResponse
    /\ UNCHANGED <<version, limits, printed, cache, errorCount, fetchCount, totalDataSize,
                   lastCharacterId, outbound, crashed>>

\* request.on("error", reject): a network failure, or the error event that
\* follows request.abort(); the socket is gone afterwards
OnError(q) ==
    /\ ~crashed
    /\ NoMicrotask
    /\ q \in DOMAIN requests
    /\ requests[q].state \in {"sent", "receiving", "stalled", "aborted"}
    /\ runs' = SettledRuns(q, Rejected("network"), FALSE)
    /\ requests' = Close(requests, q)
    /\ lastResponse' = NoResponse
    /\ UNCHANGED <<version, limits, printed, cache, errorCount, fetchCount, totalDataSize,
                   lastCharacterId, outbound, crashed>>

(* ------------------------------ specification -------------------------- *)

Next ==
    \/ \E url \in Urls : HttpRequest(url)
    \/ \E r \in DOMAIN runs : Resume(r)
    \/ \E q \in DOMAIN requests, status \in Statuses : OnResponse(q, status)
    \/ \E q \in DOMAIN requests, body \in Bodies : OnEnd(q, body)
    \/ \E q \in DOMAIN requests : OnTimeout(q)
    \/ \E q \in DOMAIN requests : OnError(q)

Spec == Init /\ [][Next]_vars

(* ------------------ behaviours in which every fetch succeeds ----------- *)

\* the remote side answers every request with a status below 400 and a list
Success ==
    \/ \E url \in Urls : HttpRequest(url)
    \/ \E r \in DOMAIN runs : Resume(r)
    \/ \E q \in DOMAIN requests, status \in Statuses :
          ~StatusFails(status) /\ OnResponse(q, status)
    \/ \E q \in DOMAIN requests : OnEnd(q, BodyList)

\* a fresh process whose runs are made one after another
InitSeq ==
    /\ \E ver \in Versions : version = ver
    /\ cache = [k \in {} |-> Undefined]
    /\ errorCount = 0
    /\ fetchCount = 0
    /\ totalDataSize = 0
    /\ lastCharacterId = 1
    /\ runs = <<>>
    /\ requests = [q \in {} |-> NewRequest(0, 0, "")]
    /\ outbound = [e \in {} |-> 0]
    /\ crashed = FALSE
    /\ lastResponse = NoResponse
    /\ printed = NothingPrinted
    /\ limits = [runs |-> SeqRuns, requests |-> SeqRequests, inflight |-> 1]

SpecSeq == InitSeq /\ [][Success]_vars

\* a fresh process with up to RaceInFlight runs in flight
InitRace ==
    /\ \E ver \in Versions : version = ver
    /\ cache = [k \in {} |-> Undefined]
    /\ errorCount = 0
    /\ fetchCount = 0
    /\ totalDataSize = 0
    /\ lastCharacterId = 1
    /\ runs = <<>>
    /\ requests = [q \in {} |-> NewRequest(0, 0, "")]
    /\ outbound = [e \in {} |-> 0]
    /\ crashed = FALSE
    /\ lastResponse = NoResponse
    /\ printed = NothingPrinted
    /\ limits = [runs |-> SeqRuns, requests |-> SeqRequests,
                 inflight |-> RaceInFlight]

SpecRace == InitRace /\ [][Success]_vars

(* ---------------- behaviours over the films lists of films/ ------------ *)

\* films/ answers with any results list, every other endpoint with a list
FilmsNext ==
    \/ \E url \in Urls : HttpRequest(url)
    \/ \E r \in DOMAIN runs : Resume(r)
    \/ \E q \in DOMAIN requests, status \in Statuses :
          ~StatusFails(status) /\ OnResponse(q, status)
    \/ \E q \in DOMAIN requests :
          requests[q].endpoint # "films/" /\ OnEnd(q, BodyList)
    \/ \E q \in DOMAIN requests, body \in FilmBodies :
          requests[q].endpoint = "films/" /\ OnEnd(q, body)

InitFilms ==
    /\ \E ver \in Versions : version = ver
    /\ cache = [k \in {} |-> Undefined]
    /\ errorCount = 0
    /\ fetchCount = 0
    /\ totalDataSize = 0
    /\ lastCharacterId = 1
    /\ runs = <<>>
    /\ requests = [q \in {} |-> NewRequest(0, 0, "")]
    /\ outbound = [e \in {} |-> 0]
    /\ crashed = FALSE
    /\ lastResponse = NoResponse
    /\ printed = NothingPrinted
    /\ limits = [runs |-> MaxRuns, requests |-> MaxRequests, inflight |-> 1]

SpecFilms == InitFilms /\ [][FilmsNext]_vars

(* ---------------- behaviours with a failed and a complete run ---------- *)

\* the remote side answers with a list or with the number 0 (on which three
\* handlers throw), or not at all before the timeout
Unreliable ==
    \/ \E url \in Urls : HttpRequest(url)
    \/ \E r \in DOMAIN runs : Resume(r)
    \/ \E q \in DOMAIN requests, status \in Statuses :
          ~StatusFails(status) /\ OnResponse(q, status)
    \/ \E q \in DOMAIN requests, body \in {BodyList, BodyZero} : OnEnd(q, body)
    \/ \E q \in DOMAIN requests : OnTimeout(q)

\* a fresh process with one request more than a complete run needs, so that a
\* run can fail and another one complete
InitRetry ==
    /\ \E ver \in Versions : version = ver
    /\ cache = [k \in {} |-> Undefined]
    /\ errorCount = 0
    /\ fetchCount = 0
    /\ totalDataSize = 0
    /\ lastCharacterId = 1
    /\ runs = <<>>
    /\ requests = [q \in {} |-> NewRequest(0, 0, "")]
    /\ outbound = [e \in {} |-> 0]
    /\ crashed = FALSE
    /\ lastResponse = NoResponse
    /\ printed = NothingPrinted
    /\ limits = [runs |-> MaxRuns, requests |-> MaxRequests + 1,
                 inflight |-> MaxRuns]

SpecRetry == InitRetry /\ [][Unreliable]_vars

(* ------------- the task-list version with runs in flight together ----- *)

\* /api is requested again and again and every fetch succeeds
Triggered ==
    \/ HttpRequest("/api")
    \/ \E r \in DOMAIN runs : Resume(r)
    \/ \E q \in DOMAIN requests, status \in Statuses :
          ~StatusFails(status) /\ OnResponse(q, status)
    \/ \E q \in DOMAIN requests : OnEnd(q, BodyList)

InitTasks == InitRace /\ version = "tasks"

SpecTasks == InitTasks /\ [][Triggered]_vars

(* ------------------------------- the claims ---------------------------- *)

\* the trace of run r before the step (empty for a run the step starts)
TraceBefore(r) == IF r \in DOMAIN runs THEN runs[r].trace ELSE <<>>

\* run r calls fetchFromApi in the step
FetchStarted(r) ==
    /\ r \in DOMAIN runs'
    /\ Len(runs'[r].trace) > Len(TraceBefore(r))
    /\ runs'[r].trace[Len(runs'[r].trace)].ev = "fetch"

\* the catch block of run r runs in the step
BecomesFailed(r) ==
    /\ r \in DOMAIN runs
    /\ runs[r].pc # "failed"
    /\ runs'[r].pc = "failed"

\* request q is changed or closed by the step
Touched(q) == q \notin DOMAIN requests' \/ requests'[q] # requests[q]

\* C1: once a fetch of E has completed successfully, whatever value it stored,
\* every later fetchFromApi(E) returns the stored value and issues no outbound
\* request; a call for an endpoint with no stored value issues exactly one.
C1_StoredValueIsReturned ==
    [][\A r \in DOMAIN runs' :
          FetchStarted(r) =>
             LET E == runs'[r].endpoint
             IN  IF E \in DOMAIN cache'
                 THEN /\ outbound' = outbound
                      /\ runs'[r].result = Resolved(cache'[E])
                 ELSE outbound' = Count(outbound, E)]_vars

\* C2 as stated: any two fetchFromApi(E) calls issue at most one outbound
\* request between them, so no endpoint is ever requested twice.
C2_AtMostOneRequestPerEndpoint ==
    \A E \in DOMAIN outbound : outbound[E] <= 1

\* C2 amended: a fetchFromApi(E) call issues no outbound request and returns
\* the cached value when the cache holds a truthy value for E at the call, and
\* issues exactly one outbound request otherwise.
C2_RequestIffNoTruthyEntry ==
    [][\A r \in DOMAIN runs' :
          FetchStarted(r) =>
             LET E == runs'[r].endpoint
                 k == runs'[r].step
             IN  IF E \in DOMAIN cache' /\ cache'[E].t = "object"
                 THEN /\ outbound' = outbound
                      /\ requests' = requests
                      /\ runs'[r].pc = "ready"
                      /\ runs'[r].result = Resolved(cache'[E])
                 ELSE /\ outbound' = Count(outbound, E)
                      /\ <<r, k>> \in DOMAIN requests' \ DOMAIN requests
                      /\ requests'[<<r, k>>].endpoint = E
                      /\ runs'[r].pc = "await"]_vars

\* a second run is served from the cache: one request was made for its endpoint
C2_Witness ==
    \E r \in DOMAIN runs :
        /\ r >= 2
        /\ runs[r].pc = "ready"
        /\ runs[r].result.kind = "ok"
        /\ runs[r].step = 1
        /\ runs[r].endpoint \in DOMAIN outbound
        /\ outbound[runs[r].endpoint] = 1

\* C3: a cache entry, once written, is never written again and its value
\* never changes.
C3_CacheEntryNeverChanges ==
    [][\A E \in DOMAIN cache : E \in DOMAIN cache' /\ cache'[E] = cache[E]]_vars

\* C4: when the timeout fires on a request that has had no response, the
\* request is aborted, the call is rejected with the timeout error and the
\* cache is left as it was; the timed-out request never writes the cache later.
C4_TimeoutAbortsWithoutCacheWrite ==
    [][\A q \in DOMAIN requests :
          /\ (/\ requests[q].state = "sent"
              /\ q \in DOMAIN requests'
              /\ requests'[q].error = "timeout")
             => /\ requests'[q].state = "aborted"
                /\ requests'[q].promise = "rejected"
                /\ runs'[q[1]].pc = "ready"
                /\ runs'[q[1]].result = Rejected("timeout")
                /\ cache' = cache
          /\ (requests[q].error = "timeout" /\ Touched(q))
             => /\ cache' = cache
                /\ q \notin DOMAIN requests']_vars

\* a request timed out before any response and its run has seen the rejection
C4_Witness ==
    \E q \in DOMAIN requests :
        /\ requests[q].error = "timeout"
        /\ requests[q].status = 0
        /\ runs[q[1]].pc = "failed"

\* C5: a response with status 400 or more rejects the call with the status
\* error and never writes the cache; a response with a status below 400 is not
\* rejected.
C5_StatusErrorWithoutCacheWrite ==
    [][\A q \in DOMAIN requests :
          /\ (/\ requests[q].state = "sent"
              /\ q \in DOMAIN requests'
              /\ requests'[q].status # 0)
             => IF requests'[q].status >= 400
                THEN /\ requests'[q].error = "status"
                     /\ requests'[q].promise = "rejected"
                     /\ runs'[q[1]].pc = "ready"
                     /\ runs'[q[1]].result = Rejected("status")
                     /\ cache' = cache
                ELSE /\ requests'[q].promise = "pending"
                     /\ requests'[q].state = "receiving"
                     /\ runs'[q[1]] = runs[q[1]]
          /\ (requests[q].error = "status" /\ Touched(q)) => cache' = cache]_vars

\* both kinds of response have arrived: one rejected, one being read
C5_Witness ==
    /\ \E q \in DOMAIN requests :
          requests[q].status >= 400 /\ runs[q[1]].pc = "failed"
    /\ \E q \in DOMAIN requests :
          requests[q].status = 399 /\ requests[q].state = "receiving"

\* C6: no failure of a fetch escapes as an uncaught exception: the process
\* never terminates on one.
C6_NoUncaughtException == ~crashed

\* C7: a run whose fetch rejects or whose handler throws ends in the catch
\* block, with errorCount increased by exactly 1; errorCount changes in no
\* other way, and a failed run starts no further fetch and calls no handler.
C7_OneErrorPerFailedRun ==
    [][/\ \A r \in DOMAIN runs :
             /\ (/\ runs[r].pc = "ready"
                 /\ runs'[r] # runs[r]
                 /\ \/ runs[r].result.kind = "err"
                    \/ /\ runs[r].step \in {2, 3, 4}
                       /\ runs[r].result.value.t # "object")
                => runs'[r].pc = "failed"
             /\ BecomesFailed(r) => errorCount' = errorCount + 1
             /\ runs[r].pc = "failed" => runs'[r] = runs[r]
       /\ errorCount' = errorCount
                        + Cardinality({r \in DOMAIN runs : BecomesFailed(r)})
       /\ \A q \in DOMAIN requests' \ DOMAIN requests :
             runs'[q[1]].pc = "await"]_vars

\* the timeout callback has fired for a run that has already failed; the error
\* event of the aborted request is still to come
C7_Witness ==
    \E q \in DOMAIN requests :
        /\ requests[q].state = "aborted"
        /\ runs[q[1]].pc = "failed"
        /\ errorCount = 1

\* C8: the step in which a run fails rolls nothing back: fetchCount, the
\* rotating id, the cache and the open requests are unchanged, totalDataSize
\* keeps what was added (the failing step's own payload included when its
\* handler threw), and errorCount goes up by one.
C8_FailureKeepsAccumulatedState ==
    [][\A r \in DOMAIN runs :
          BecomesFailed(r) =>
             /\ fetchCount' = fetchCount
             /\ lastCharacterId' = lastCharacterId
             /\ cache' = cache
             /\ requests' = requests
             /\ outbound' = outbound
             /\ errorCount' = errorCount + 1
             /\ totalDataSize' =
                   totalDataSize
                     + (IF runs[r].result.kind = "ok"
                        THEN JSONStringifyLength(runs[r].result.value) ELSE 0)
             /\ \A i \in 1..Len(runs[r].trace) :
                   runs'[r].trace[i] = runs[r].trace[i]]_vars

\* a run has failed after its first step: sizes and cache entries are kept
C8_Witness ==
    \E r \in DOMAIN runs :
        /\ runs[r].pc = "failed"
        /\ runs[r].step >= 2
        /\ totalDataSize > 0
        /\ DOMAIN cache # {}
        /\ fetchCount = Len(runs)

\* the order of the events of a run that completes all five steps
FullTrace ==
    <<Ev("fetch", 1), Ev("size", 1), Ev("handler", 1),
      Ev("fetch", 2), Ev("size", 2), Ev("handler", 2),
      Ev("fetch", 3), Ev("size", 3), Ev("handler", 3),
      Ev("fetch", 4), Ev("size", 4), Ev("handler", 4),
      Ev("fetch", 5), Ev("size", 5), Ev("handler", 5)>>

People == {"people/" \o ToString(i) : i \in 1..(MaxRuns + 1)}
Vehicles == {"vehicles/" \o ToString(i) : i \in 1..maxlastCharacterId}

\* the resource a step asks for
StepEndpoints(k) ==
    CASE k = 1 -> People
      [] k = 2 -> {"starships/?page=1"}
      [] k = 3 -> {"planets/?page=1"}
      [] k = 4 -> {"films/"}
      [] k = 5 -> Vehicles

\* C9: a run has at most one pending fetch, and its events follow the fixed
\* order fetch, size, handler of people, starships, planets, films, vehicle:
\* a fetch is started only after the previous step's handler has returned.
C9_SequentialFixedOrder ==
    \A r \in DOMAIN runs :
        /\ Cardinality({q \in DOMAIN requests :
                           q[1] = r /\ requests[q].promise = "pending"}) <= 1
        /\ Len(runs[r].trace) <= Len(FullTrace)
        /\ \A i \in 1..Len(runs[r].trace) : runs[r].trace[i] = FullTrace[i]
        /\ runs[r].pc \in {"await", "ready"} =>
              /\ runs[r].trace[Len(runs[r].trace)] = Ev("fetch", runs[r].step)
              /\ runs[r].endpoint \in StepEndpoints(runs[r].step)
        /\ \A q \in DOMAIN requests :
              q[1] = r => requests[q].endpoint \in StepEndpoints(q[2])

\* a run is waiting for its vehicle fetch, the last of the five
C9_Witness ==
    \E r \in DOMAIN runs :
        /\ runs[r].pc = "await"
        /\ runs[r].step = 5
        /\ <<r, 5>> \in DOMAIN requests

\* C10: the step that starts an orchestrator run answers the /api request with
\* the 200 acknowledgement, before any fetch of the run has completed; no other
\* step starts a run or answers /api.
C10_ApiAcknowledgedAtOnce ==
    [][/\ Len(runs') # Len(runs) =>
             /\ Len(runs') = Len(runs) + 1
             /\ lastResponse' = [url |-> "/api", status |-> 200,
                                 type |-> "text/plain",
                                 body |-> "Check server console for results"]
             /\ runs'[Len(runs')].trace = <<Ev("fetch", 1)>>
             /\ runs'[Len(runs')].pc \in {"await", "ready"}
             /\ \A r \in DOMAIN runs : runs'[r] = runs[r]
       /\ lastResponse'.url = "/api" =>
             /\ Len(runs') = Len(runs) + 1
             /\ lastResponse'.status = 200]_vars

\* /api has just been acknowledged while an earlier run is still in flight
C10_Witness ==
    /\ lastResponse.url = "/api"
    /\ Len(runs) = 2
    /\ runs[1].pc = "await"
    /\ runs[2].pc = "await"

\* C11: no step decreases api_calls, data_size, errors or cache_size.
C11_CountersNeverDecrease ==
    [][/\ fetchCount' >= fetchCount
       /\ totalDataSize' >= totalDataSize
       /\ errorCount' >= errorCount
       /\ Cardinality(DOMAIN cache') >= Cardinality(DOMAIN cache)]_vars

\* all four counters have grown, with one run failed and a second entry cached
C11_Witness ==
    /\ fetchCount = 2
    /\ totalDataSize > 0
    /\ errorCount = 1
    /\ Cardinality(DOMAIN cache) >= 2

\* C12: when the runs are made one after another and every fetch succeeds,
\* run r of the first four asks for vehicles/r, and a run after the fourth
\* asks for no vehicle.
C12_VehicleFetchedByFirstFourRuns ==
    \A r \in DOMAIN runs :
        LET vehicle == "vehicles/" \o ToString(r)
            fetched == \E i \in 1..Len(runs[r].trace) :
                           runs[r].trace[i] = Ev("fetch", 5)
        IN  /\ runs[r].pc # "failed"
            /\ r <= 4 =>
                  /\ runs[r].pc = "done" =>
                        /\ fetched
                        /\ vehicle \in DOMAIN outbound
                        /\ outbound[vehicle] = 1
                        /\ vehicle \in DOMAIN cache
                  /\ (fetched /\ runs[r].pc # "done") =>
                        runs[r].endpoint = vehicle
            /\ r > 4 => ~fetched

\* five runs have finished one after another
C12_Witness ==
    /\ Len(runs) = 5
    /\ \A r \in 1..5 : runs[r].pc = "done"
    /\ DOMAIN outbound \cap {"vehicles/5"} = {}

\* C13: lastCharacterId stays within 1..5: it never decreases and is never
\* incremented once it is above the ceiling of 4.
C13_RotatingIdWithinRange ==
    [][/\ lastCharacterId' \in 1..5
       /\ lastCharacterId' >= lastCharacterId
       /\ lastCharacterId > 4 => lastCharacterId' = lastCharacterId]_vars


\* the fetches of run r that have returned a payload: those whose size has
\* been added, and the one whose value the run is about to take
Succeeded(r) ==
    Cardinality({i \in 1..Len(runs[r].trace) : runs[r].trace[i].ev = "size"})
    + (IF runs[r].pc = "ready" /\ runs[r].result.kind = "ok" THEN 1 ELSE 0)

SuccessfulFetches == Sum([r \in DOMAIN runs |-> Succeeded(r)])

\* C14: fetchCount (api_calls) equals the number of fetches that have
\* completed successfully so far.
C14_FetchCountIsSuccessfulFetches == fetchCount = SuccessfulFetches


\* the step handles an HTTP request for url
Handles(url) == lastResponse'.url = url

\* C15: a URL other than "/", "/index.html", "/api" and "/stats" is answered
\* with the 404 and starts no run; each of the four is answered by its own
\* route (page, acknowledgement, statistics) and never with the 404.
C15_UnmatchedPathsAreNotFound ==
    [][\A url \in Urls : Handles(url) =>
          CASE url \in {"/", "/index.html"} ->
                   /\ lastResponse'.status = 200
                   /\ lastResponse'.type = "text/html"
            [] url = "/api" ->
                   /\ lastResponse'.status = 200
                   /\ lastResponse'.body = "Check server console for results"
                   /\ Len(runs') = Len(runs) + 1
            [] url = "/stats" ->
                   /\ lastResponse'.status = 200
                   /\ lastResponse'.type = "application/json"
            [] OTHER ->
                   /\ lastResponse'.status = 404
                   /\ lastResponse'.body = "Not Found"
                   /\ runs' = runs
                   /\ requests' = requests
                   /\ fetchCount' = fetchCount]_vars

C15_Witness ==
    /\ lastResponse.url = "/favicon.ico"
    /\ lastResponse.status = 404
    /\ \E r \in DOMAIN runs : runs[r].pc = "await"


\* how many times film occurs in the list
Occurrences(film, list) == Cardinality({i \in 1..Len(list) : list[i] = film})

\* C16: displayFilmsChronologically prints the films in non-decreasing
\* release_date order, each film of the results list exactly once, whatever
\* the list and its order.
C16_FilmsPrintedChronologically ==
    /\ \A i, j \in 1..Len(printed.output) :
          i < j => printed.output[i].release_date <= printed.output[j].release_date
    /\ Len(printed.output) = Len(printed.input)
    /\ \A film \in Films :
          Occurrences(film, printed.output) = Occurrences(film, printed.input)

C16_Witness ==
    /\ printed.input = <<FilmC, FilmA, FilmB>>
    /\ printed.output = <<FilmB, FilmA, FilmC>>


\* run r adds the size of a payload in the step
SizeAdded(r) ==
    /\ r \in DOMAIN runs
    /\ \E i \in (Len(runs[r].trace) + 1)..Len(runs'[r].trace) :
          runs'[r].trace[i].ev = "size"

\* C17: a step that takes a fetched payload adds its serialized length to
\* totalDataSize, from the cache or from a request alike, so data_size grows;
\* a fetch served from the cache issues no outbound request, and the steps of
\* a run that issue no request leave cache_size as it is.
C17_EveryPayloadIsCounted ==
    [][\A r \in DOMAIN runs' :
          /\ SizeAdded(r) =>
                /\ runs[r].result.kind = "ok"
                /\ totalDataSize' =
                       totalDataSize + JSONStringifyLength(runs[r].result.value)
                /\ totalDataSize' > totalDataSize
                /\ Cardinality(DOMAIN cache') = Cardinality(DOMAIN cache)
          /\ (FetchStarted(r) /\ IsCached(cache, runs'[r].endpoint)) =>
                /\ outbound' = outbound
                /\ requests' = requests
                /\ runs'[r].pc = "ready"
                /\ runs'[r].result.kind = "ok"
                /\ Cardinality(DOMAIN cache') = Cardinality(DOMAIN cache)]_vars

\* the task-list version after five runs in a row: the fifth found all four
\* payloads in the cache (the eight requests are those of runs 1 to 4) and
\* every one of the 4 * 5 + 4 payloads was counted
C17_Witness ==
    /\ version = "tasks"
    /\ Len(runs) = 5
    /\ runs[5].pc = "done"
    /\ Sum(outbound) = 8
    /\ Cardinality(DOMAIN cache) = 8
    /\ totalDataSize = 24 * JSONStringifyLength(JSONParse(BodyList))


\* run r has called displayVehicle
VehicleDisplayed(run) ==
    \E i \in 1..Len(run.trace) : run.trace[i] = Ev("handler", VehicleStep)

\* C18: lastCharacterId changes only in the step in which a run's vehicle
\* fetch has returned a payload and displayVehicle has been called, and then by
\* one; a step in which a run fails leaves it unchanged; a run's vehicle fetch
\* asks for vehicles/<lastCharacterId>, so after a failed run the same vehicle
\* is requested again.
C18_IdAdvancesAfterVehicleSuccess ==
    [][/\ lastCharacterId' # lastCharacterId =>
             /\ lastCharacterId' = lastCharacterId + 1
             /\ \E r \in DOMAIN runs :
                   /\ runs[r].pc = "ready"
                   /\ runs[r].step = VehicleStep
                   /\ runs[r].result.kind = "ok"
                   /\ runs'[r].pc = "done"
                   /\ VehicleDisplayed(runs'[r])
       /\ \A r \in DOMAIN runs' :
             /\ BecomesFailed(r) => lastCharacterId' = lastCharacterId
             /\ (FetchStarted(r) /\ runs'[r].step = VehicleStep) =>
                   /\ lastCharacterId' = lastCharacterId
                   /\ runs'[r].endpoint = "vehicles/" \o ToString(lastCharacterId)]_vars

\* the first run failed at the vehicle step, the second asks for vehicles/1 again
C18_Witness ==
    /\ Len(runs) = 2
    /\ runs[1].pc = "failed"
    /\ \E i \in 1..Len(runs[1].trace) : runs[1].trace[i] = Ev("fetch", VehicleStep)
    /\ lastCharacterId = 1
    /\ runs[2].pc = "await"
    /\ runs[2].step = VehicleStep
    /\ runs[2].endpoint = "vehicles/1"
    /\ outbound["vehicles/1"] = 2


\* the runs that have ended with the given outcome
Finished(pc) == Cardinality({r \in DOMAIN runs : runs[r].pc = pc})

\* C19: errorCount <= fetchCount; fetchCount is the number of /api requests
\* handled (each has started one run); and when no run is in flight,
\* fetchCount = runs finished without error + errorCount.
C19_CountersAccountForEveryRun ==
    /\ errorCount <= fetchCount
    /\ fetchCount = Len(runs)
    /\ InFlight = 0 => fetchCount = Finished("done") + errorCount

\* two runs that were in flight together have ended, one of them in the catch
C19_Witness ==
    /\ InFlight = 0
    /\ fetchCount = 2
    /\ errorCount = 1
    /\ Finished("done") = 1
    /\ Finished("failed") = 1
    /\ outbound["people/1"] = 2


\* C20: a request for "/", "/index.html", "/stats" or an unmatched path
\* leaves the cache, the counters and lastCharacterId (and the runs and
\* requests) as they are, and the /stats response carries the current
\* fetchCount, number of cache keys, totalDataSize and errorCount.
C20_OnlyApiChangesState ==
    [][/\ \A url \in Urls \ {"/api"} : Handles(url) =>
             /\ cache' = cache
             /\ fetchCount' = fetchCount
             /\ errorCount' = errorCount
             /\ totalDataSize' = totalDataSize
             /\ lastCharacterId' = lastCharacterId
             /\ runs' = runs
             /\ requests' = requests
             /\ outbound' = outbound
       /\ Handles("/stats") =>
             lastResponse'.body =
                 "{api_calls:" \o ToString(fetchCount)
                 \o ",cache_size:" \o ToString(Cardinality(DOMAIN cache))
                 \o ",data_size:" \o ToString(totalDataSize)
                 \o ",errors:" \o ToString(errorCount) \o "}"]_vars

\* /stats answered after one run has failed behind its first payload and a
\* second run has started
C20_Witness ==
    /\ lastResponse.url = "/stats"
    /\ lastResponse.body = "{api_calls:2,cache_size:1,data_size:155,errors:1}"
    /\ fetchCount = 2
    /\ errorCount = 1


\* C21: in the task-list version the cache keys are among people/1,
\* starships/?page=1, planets/?page=1, films/ and vehicles/1..4, whatever the
\* number and interleaving of the runs, so cache_size is at most 8.
C21_TaskListCacheKeys ==
    version = "tasks" =>
        /\ DOMAIN cache \subseteq
               {"people/1", "starships/?page=1", "planets/?page=1", "films/",
                "vehicles/1", "vehicles/2", "vehicles/3", "vehicles/4"}
        /\ Cardinality(DOMAIN cache) <= 8

\* all eight keys are cached and two runs in flight together have both
\* advanced the id past the ceiling
C21_Witness ==
    /\ version = "tasks"
    /\ Cardinality(DOMAIN cache) = 8
    /\ lastCharacterId = 6
    /\ Len(runs) = 5
    /\ \A r \in DOMAIN runs : runs[r].pc = "done"

====
